---- MODULE Spec2Model ----
(***************************************************************************)
(* A state-machine model of main_backend.py of futu_algo: the daily data   *)
(* synchronisation (daily_update_data), the plugin resolution              *)
(* (__dynamic_instantiation, __init_strategy, __init_filter), the live     *)
(* evaluation loop (init_day_trading) and the command-line driver (main).  *)
(* Collaborators (futu_trade, HKEXInterface, DataProcessingInterface, ...) *)
(* are modelled by the calls made to them, recorded in the log `calls`,    *)
(* and by the values they hand back.                                       *)
(***************************************************************************)
EXTENDS Integers, Sequences, FiniteSets, TLC

(***************************************************************************)
(* Bounds of the model.                                                    *)
(***************************************************************************)
\* longest instrument list handed to daily_update_data / init_day_trading
MaxLen == 3
\* number of iterations of the `while True` loop that are followed
MaxEval == 3
\* most markets given with -m
MaxMarkets == 2
\* most subscribers of the configuration
MaxSubscribers == 2

(***************************************************************************)
(* Program constants.                                                      *)
(***************************************************************************)
\* ceil(default_days / 365)
DaysPerYear == 365
\* get_data_realtime(..., kline_num=1000)
kline_num == 1000

(***************************************************************************)
(* Input domains.                                                          *)
(***************************************************************************)
Instruments == {"HK.00001", "HK.00002", "HK.00003"}

\* values DataProcessingInterface.get_num_days_to_update may return
DaysValues == {1, 40, 365, 400}

None == "None"

SeqsUpTo(S, n) == UNION {[1..k -> S] : k \in 0..n}

Range(s) == {s[k] : k \in 1..Len(s)}

\* the value (None) of a list-valued or name-valued option that is not
\* given; argparse never yields an empty list or name for a given one
NotGiven == <<>>

\* the parsed command line when no flag is given
NoArgs ==
    [filter |-> NotGiven, market |-> NotGiven, email_name |-> None, update |-> FALSE,
     force_update |-> FALSE, strategy |-> NotGiven, time_interval |-> "K_1M",
     backtesting |-> NotGiven, include_hsi |-> FALSE]

\* filtered_stock_dict = {}
NoDetails == [source |-> None, stocks |-> <<>>]

\* a dict object: its identity and its items
NoDict == [id |-> 0, items |-> <<>>]

VARIABLES
    pc,                 \* position of the control flow
    stack,              \* return addresses of the calls in progress
    exc,                \* the exception that is propagating, or None
    exit_code,          \* exit status of the process, -1 while it runs
    calls,              \* log of the collaborator calls, in order
    stock_list,         \* the instrument list (one list object in main)
    force_update,       \* daily_update_data's force_update parameter
    security_list,      \* version of the stored HKEX security list
    staleness,          \* per instrument: days since its last local bar
    full_equity_list,   \* daily_update_data's local full_equity_list
    days,               \* the list built by the comprehension of line 61
    default_days,       \* daily_update_data's local default_days
    du_i,               \* position of the loops of daily_update_data
    bars,               \* the local bar store, per instrument and granularity
    sub_type,           \* init_day_trading's sub_type parameter
    strategy_name,      \* init_day_trading's strategy_name parameter
    stock_strategy_dict,\* init_day_trading's stock_strategy_dict parameter
    input_data,         \* init_day_trading's local input_data
    building,           \* the dict under construction by the comprehension
    strategy_map,       \* init_day_trading's local strategy_map
    dt_i,               \* position of the comprehension of line 132
    next_id,            \* identity of the next object created
    args,               \* main's parsed command line
    subscription_list,  \* main's subscription_list (config Email)
    filter_pass,        \* per filter class: the instruments it lets pass
    m_i,                \* position of `for market in args.market`
    filtered_stock_list,\* main's local filtered_stock_list
    filtered_stock_dict,\* main's local filtered_stock_dict
    s_i                 \* position of `for subscriber in subscription_list`

syncVars == <<force_update, security_list, staleness, full_equity_list, days,
              default_days, du_i, bars>>
tradeVars == <<sub_type, strategy_name, stock_strategy_dict, input_data,
               building, strategy_map, dt_i, next_id>>
filterVars == <<args, subscription_list, filter_pass, m_i, filtered_stock_list,
                filtered_stock_dict, s_i>>
\* what daily_update_data leaves alone
notSync == <<stock_list, tradeVars, filterVars>>
\* what init_day_trading leaves alone
notTrade == <<stock_list, syncVars, filterVars>>
vars == <<pc, stack, exc, exit_code, calls, stock_list, force_update,
          security_list, staleness, full_equity_list, days, default_days, du_i,
          bars, sub_type, strategy_name, stock_strategy_dict, input_data, building,
          strategy_map, dt_i, next_id, args, subscription_list, filter_pass, m_i,
          filtered_stock_list, filtered_stock_dict, s_i>>

(***************************************************************************)
(* Control-flow helpers.                                                   *)
(***************************************************************************)
\* an uncaught exception: nothing in main_backend.py catches, so it
\* unwinds every frame and the interpreter exits with status 1
Raise(e) ==
    /\ pc' = "raised"
    /\ exc' = e
    /\ stack' = <<>>
    /\ exit_code' = 1

Goto(l) ==
    /\ pc' = l
    /\ UNCHANGED <<stack, exc, exit_code>>

\* return to the caller; a function entered directly returns to "returned"
Return ==
    /\ pc' = IF stack = <<>> THEN "returned" ELSE Head(stack)
    /\ stack' = IF stack = <<>> THEN <<>> ELSE Tail(stack)
    /\ UNCHANGED <<exc, exit_code>>

Log(c) == calls' = Append(calls, c)

(***************************************************************************)
(* Pure helpers of daily_update_data.                                      *)
(***************************************************************************)
\* math.ceil(a / b) for a >= 0, b > 0
ceil_div(a, b) == -((-a) \div b)

RECURSIVE max(_)
\* max() of a non-empty list
max(s) ==
    IF Len(s) = 1 THEN s[1]
    ELSE LET m == max(Tail(s)) IN IF s[1] >= m THEN s[1] ELSE m

RECURSIVE min(_)
min(s) ==
    IF Len(s) = 1 THEN s[1]
    ELSE LET m == min(Tail(s)) IN IF s[1] <= m THEN s[1] ELSE m

\* a sync that takes the freshest instrument's staleness
DefaultDays_min(s) == min(s)

\* line 61: the value every instrument of this run is re-synced with
DefaultDays(s) == max(s)

\* lines 65, 67: years=ceil(default_days / 365)
Years(d) == ceil_div(d, DaysPerYear)

\* line 69: default_days=default_days
MinuteDays(d) == d

\* a sync that forces every bar update
ForceArg_always(f) == TRUE

\* lines 65-69: force_update=force_update
ForceArg(f) == f

(***************************************************************************)
(* The local bar store.  For every instrument and granularity it keeps the *)
(* number of stored bars and the age in days of the latest one.  The       *)
(* engines that write it are not part of this file: a non-forced update of *)
(* a series that is current does nothing, any other update fetches the     *)
(* requested span and merges it, which adds the bars newer than the latest *)
(* stored one and never duplicates a bar.                                  *)
(***************************************************************************)
Granularities == {"K_DAY", "K_WEEK", "K_1M"}

\* the store in which the latest bar of every series of c is age[c] days old
StoreOf(age) ==
    [k \in Instruments \X Granularities |-> [count |-> 1, age |-> age[k[1]]]]

\* fetch span_days days of bars and merge them into the series b
merge_bars(b, span_days, force) ==
    IF ~force /\ b.age = 0
    THEN b
    ELSE [count |-> b.count + min(<<span_days, b.age>>),
          age |-> IF span_days > 0 THEN 0 ELSE b.age]

\* DataProcessingInterface.get_num_days_to_update(code) for every code: the
\* age of the latest 1-minute bar stored for it
num_days_to_update(store) ==
    [c \in Instruments |-> store[<<c, "K_1M">>].age]

\* DataProcessingInterface.update_DW_data(code, years, force_update, k_type)
update_DW_data(store, code, k_type, years, force) ==
    [store EXCEPT ![<<code, k_type>>] = merge_bars(@, years * DaysPerYear, force)]

\* DataProcessingInterface.update_1M_data(code, force_update, default_days)
update_1M_data_bars(store, code, d, force) ==
    [store EXCEPT ![<<code, "K_1M">>] = merge_bars(@, d, force)]

(***************************************************************************)
(* daily_update_data, lines 37-69.                                         *)
(***************************************************************************)
\* line 45
update_security_list_full ==
    /\ pc = "du_security_list"
    /\ Log([op |-> "update_security_list_full"])
    /\ \/ /\ security_list' = security_list + 1
          /\ Goto("du_plate_list")
       \/ /\ Raise("update_security_list_full")
          /\ UNCHANGED security_list
    /\ UNCHANGED <<notSync, force_update, staleness, full_equity_list, days,
                   default_days, du_i, bars>>

\* line 51
update_plate_list ==
    /\ pc = "du_plate_list"
    /\ Log([op |-> "update_plate_list"])
    /\ \/ Goto("du_basicinfo")
       \/ Raise("update_plate_list")
    /\ UNCHANGED <<notSync, syncVars>>

\* line 54
update_stock_basicinfo ==
    /\ pc = "du_basicinfo"
    /\ Log([op |-> "update_stock_basicinfo"])
    /\ \/ Goto("du_equity_list")
       \/ Raise("update_stock_basicinfo")
    /\ UNCHANGED <<notSync, syncVars>>

\* line 57: the list as it is stored when the call is made
get_equity_list_full ==
    /\ pc = "du_equity_list"
    /\ Log([op |-> "get_equity_list_full"])
    /\ full_equity_list' = security_list
    /\ Goto("du_owner_plate")
    /\ UNCHANGED <<notSync, force_update, security_list, staleness, days,
                   default_days, du_i, bars>>

\* line 58
update_owner_plate ==
    /\ pc = "du_owner_plate"
    /\ Log([op |-> "update_owner_plate", stock_list |-> full_equity_list])
    /\ \/ /\ Goto("du_days")
          /\ du_i' = 1
          /\ days' = <<>>
       \/ /\ Raise("update_owner_plate")
          /\ UNCHANGED <<du_i, days>>
    /\ UNCHANGED <<notSync, force_update, security_list, staleness,
                   full_equity_list, default_days, bars>>

\* line 61, one element of the comprehension
get_num_days_to_update ==
    /\ pc = "du_days"
    /\ du_i <= Len(stock_list)
    /\ Log([op |-> "get_num_days_to_update", code |-> stock_list[du_i]])
    /\ \/ /\ days' = Append(days, staleness[stock_list[du_i]])
          /\ du_i' = du_i + 1
          /\ Goto("du_days")
       \/ /\ Raise("get_num_days_to_update")
          /\ UNCHANGED <<days, du_i>>
    /\ UNCHANGED <<notSync, force_update, security_list, staleness,
                   full_equity_list, default_days, bars>>

\* a sync that takes 0 for an empty list
max_days_to_update_default ==
    /\ pc = "du_days"
    /\ du_i > Len(stock_list)
    /\ default_days' = IF days = <<>> THEN 0 ELSE DefaultDays(days)
    /\ du_i' = 1
    /\ Goto("du_day")
    /\ UNCHANGED <<calls, notSync, force_update, security_list, staleness,
                   full_equity_list, days, bars>>

\* line 61, max() of the finished list; max([]) raises ValueError
max_days_to_update ==
    /\ pc = "du_days"
    /\ du_i > Len(stock_list)
    /\ IF days = <<>>
       THEN /\ Raise("ValueError")
            /\ UNCHANGED <<default_days, du_i>>
       ELSE /\ default_days' = DefaultDays(days)
            /\ du_i' = 1
            /\ Goto("du_day")
    /\ UNCHANGED <<calls, notSync, force_update, security_list, staleness,
                   full_equity_list, days, bars>>

\* line 64: the for loop ends with the list
daily_update_data_return ==
    /\ pc = "du_day"
    /\ du_i > Len(stock_list)
    /\ Return
    /\ UNCHANGED <<calls, notSync, syncVars>>

\* lines 65-66
update_DW_data_day ==
    /\ pc = "du_day"
    /\ du_i <= Len(stock_list)
    /\ Log([op |-> "update_DW_data", code |-> stock_list[du_i],
            years |-> Years(default_days), force_update |-> ForceArg(force_update),
            k_type |-> "K_DAY"])
    /\ \/ /\ bars' = update_DW_data(bars, stock_list[du_i], "K_DAY",
                                     Years(default_days), ForceArg(force_update))
          /\ Goto("du_week")
       \/ /\ Raise("update_DW_data")
          /\ UNCHANGED bars
    /\ UNCHANGED <<notSync, force_update, security_list, staleness,
                   full_equity_list, days, default_days, du_i>>

\* lines 67-68
update_DW_data_week ==
    /\ pc = "du_week"
    /\ Log([op |-> "update_DW_data", code |-> stock_list[du_i],
            years |-> Years(default_days), force_update |-> ForceArg(force_update),
            k_type |-> "K_WEEK"])
    /\ \/ /\ bars' = update_DW_data(bars, stock_list[du_i], "K_WEEK",
                                     Years(default_days), ForceArg(force_update))
          /\ Goto("du_1m")
       \/ /\ Raise("update_DW_data")
          /\ UNCHANGED bars
    /\ UNCHANGED <<notSync, force_update, security_list, staleness,
                   full_equity_list, days, default_days, du_i>>

\* a sync whose per-instrument loop resumes at the reference refreshes
update_1M_data_refresh_in_loop ==
    /\ pc = "du_1m"
    /\ Log([op |-> "update_1M_data", code |-> stock_list[du_i],
            force_update |-> ForceArg(force_update),
            default_days |-> MinuteDays(default_days)])
    /\ du_i' = du_i + 1
    /\ bars' = update_1M_data_bars(bars, stock_list[du_i], MinuteDays(default_days),
                                   ForceArg(force_update))
    /\ Goto(IF du_i < Len(stock_list) THEN "du_plate_list" ELSE "du_day")
    /\ UNCHANGED <<notSync, force_update, security_list, staleness,
                   full_equity_list, days, default_days>>

\* line 69
update_1M_data ==
    /\ pc = "du_1m"
    /\ Log([op |-> "update_1M_data", code |-> stock_list[du_i],
            force_update |-> ForceArg(force_update),
            default_days |-> MinuteDays(default_days)])
    /\ \/ /\ du_i' = du_i + 1
          /\ bars' = update_1M_data_bars(bars, stock_list[du_i],
                                         MinuteDays(default_days),
                                         ForceArg(force_update))
          /\ Goto("du_day")
       \/ /\ Raise("update_1M_data")
          /\ UNCHANGED <<du_i, bars>>
    /\ UNCHANGED <<notSync, force_update, security_list, staleness,
                   full_equity_list, days, default_days>>

daily_update_data ==
    \/ update_security_list_full
    \/ update_plate_list
    \/ update_stock_basicinfo
    \/ get_equity_list_full
    \/ update_owner_plate
    \/ get_num_days_to_update
    \/ max_days_to_update
    \/ update_DW_data_day
    \/ update_DW_data_week
    \/ update_1M_data
    \/ daily_update_data_return

(***************************************************************************)
(* Plugin namespaces.  A name is the sequence of the pieces of the file    *)
(* name, "_" being a piece of its own, so that str.replace("_", "") is     *)
(* computed and not assumed.  A namespace maps each module of the package  *)
(* to the classes the module defines.                                      *)
(***************************************************************************)
MACD_Cross == <<"MACD", "_", "Cross">>
KDJ_Cross == <<"KDJ", "_", "Cross">>
\* a module whose class does not follow the naming rule
Quant_Legendary == <<"Quant", "_", "Legendary">>
\* no module of this name exists
No_Such == <<"No", "_", "Such">>

StrategyNames == {MACD_Cross, KDJ_Cross, Quant_Legendary, No_Such}

strategies ==
    [m \in {MACD_Cross, KDJ_Cross, Quant_Legendary} |->
        IF m = MACD_Cross THEN {<<"MACD", "Cross">>}
        ELSE IF m = KDJ_Cross THEN {<<"KDJ", "Cross">>}
        ELSE {<<"Legendary">>}]

MA_Simple == <<"MA", "_", "Simple">>
Volume_Threshold == <<"Volume", "_", "Threshold">>
\* a filter module whose class does not follow the naming rule
Triple_Cross == <<"Triple", "_", "Cross">>

\* the filters package: its modules and the classes each defines
filters ==
    [m \in {MA_Simple, Volume_Threshold, Triple_Cross} |->
        IF m = MA_Simple THEN {<<"MA", "Simple">>}
        ELSE IF m = Volume_Threshold THEN {<<"Volume", "Threshold">>}
        ELSE {<<"Triple", "Cross", "Filter">>}]

\* importlib.import_module(f"{prefix}.{module_name}") looks in the package
Namespace(prefix) == IF prefix = "strategies" THEN strategies ELSE filters

\* the *.py files under PATH_FILTERS
FilterFiles ==
    {<<"_", "_", "init", "_", "_">>, <<"Filters">>, MA_Simple, Volume_Threshold,
     Triple_Cross}

\* the *.py files under PATH_STRATEGIES
StrategyFiles ==
    {<<"_", "_", "init", "_", "_">>, <<"Strategies">>, MACD_Cross, KDJ_Cross,
     Quant_Legendary}

\* pat in name, for strings
Contains(name, pat) ==
    \E k \in 1..(Len(name) - Len(pat) + 1) : SubSeq(name, k, k + Len(pat) - 1) = pat

\* lines 157-158 and 171-172: the choices argparse accepts
Choices(files, base) ==
    {f \in files : ~Contains(f, <<"_", "_", "init", "_", "_">>) /\ ~Contains(f, <<base>>)}

\* module_name.replace("_", "")
replace_underscore(module_name) == SelectSeq(module_name, LAMBDA t : t # "_")

\* a resolution that falls back to a default plugin of the package
dynamic_instantiation_fallback(prefix, module_name, optional_parameter, id) ==
    LET pkg == Namespace(prefix)
        m == IF /\ module_name \in DOMAIN pkg
                /\ replace_underscore(module_name) \in pkg[module_name]
             THEN module_name
             ELSE IF prefix = "strategies" THEN MACD_Cross ELSE MA_Simple
    IN  [ok |-> TRUE,
         inst |-> [id |-> id, prefix |-> prefix, module |-> m,
                   class |-> replace_underscore(m), arg |-> optional_parameter]]

\* lines 75-82: the instance built for a name, or the error raised.  id is
\* the identity the new object gets.
dynamic_instantiation(prefix, module_name, optional_parameter, id) ==
    IF module_name \notin DOMAIN Namespace(prefix)
    THEN [ok |-> FALSE, err |-> "ModuleNotFoundError"]
    ELSE IF replace_underscore(module_name) \notin Namespace(prefix)[module_name]
    THEN [ok |-> FALSE, err |-> "AttributeError"]
    ELSE [ok |-> TRUE,
          inst |-> [id |-> id, prefix |-> prefix, module |-> module_name,
                    class |-> replace_underscore(module_name),
                    arg |-> optional_parameter]]

\* dict.copy(): a new dict object with the same items
copy(d, id) == [id |-> id, items |-> d.items]

\* a strategy handed the caller's dict instead of a copy of it
init_strategy_no_copy(name, data, id) ==
    dynamic_instantiation("strategies", name, data, id + 1)

\* lines 85-92
init_strategy(name, data, id) ==
    dynamic_instantiation("strategies", name, copy(data, id), id + 1)

\* dict.get(key, default)
dict_get(d, key, default) == IF key \in DOMAIN d THEN d[key] ELSE default

\* a binding that ignores the per-instrument override
StrategyFor_default_only(stock_code) == strategy_name

\* line 132: stock_strategy_dict.get(stock_code, strategy_name)
StrategyFor(stock_code) == dict_get(stock_strategy_dict, stock_code, strategy_name)

\* d[key] = value
dict_set(d, key, value) ==
    [k \in DOMAIN d \cup {key} |-> IF k = key THEN value ELSE d[k]]

\* what get_data_realtime(stock_list, sub_type=sub_type, kline_num=1000)
\* returns: the data of that request, known by the instruments, the
\* granularity and the number of bars asked for
RealtimeData(sl, t) == [instruments |-> Range(sl), sub_type |-> t, kline_num |-> kline_num]

CountOp(o) == Cardinality({k \in 1..Len(calls) : calls[k].op = o})

(***************************************************************************)
(* init_day_trading, lines 125-137.                                        *)
(***************************************************************************)
\* a loop that goes on whatever the subscription returned
kline_subscribe_ignored ==
    /\ pc = "dt_subscribe"
    /\ \E ret \in {"True", "False"} :
          /\ Log([op |-> "kline_subscribe", stock_list |-> stock_list,
                  sub_type |-> sub_type, ret |-> ret])
          /\ Goto("dt_realtime")
    /\ UNCHANGED <<notTrade, tradeVars>>

\* line 128
kline_subscribe ==
    /\ pc = "dt_subscribe"
    /\ \/ /\ Log([op |-> "kline_subscribe", stock_list |-> stock_list,
                  sub_type |-> sub_type, ret |-> "True"])
          /\ Goto("dt_realtime")
       \/ /\ Log([op |-> "kline_subscribe", stock_list |-> stock_list,
                  sub_type |-> sub_type, ret |-> "False"])
          /\ Goto("dt_exit")
       \/ /\ Log([op |-> "kline_subscribe", stock_list |-> stock_list,
                  sub_type |-> sub_type, ret |-> "raised"])
          /\ Raise("kline_subscribe")
    /\ UNCHANGED <<notTrade, tradeVars>>

\* line 137: sys.exit(1) raises SystemExit, which nothing catches
sys_exit ==
    /\ pc = "dt_exit"
    /\ pc' = "exited"
    /\ exc' = "SystemExit"
    /\ stack' = <<>>
    /\ exit_code' = 1
    /\ UNCHANGED <<calls, notTrade, tradeVars>>

\* line 130
get_data_realtime ==
    /\ pc = "dt_realtime"
    /\ Log([op |-> "get_data_realtime", stock_list |-> stock_list,
            sub_type |-> sub_type, kline_num |-> kline_num])
    /\ \/ /\ input_data' = [id |-> next_id, items |-> RealtimeData(stock_list, sub_type)]
          /\ next_id' = next_id + 1
          /\ building' = <<>>
          /\ dt_i' = 1
          /\ Goto("dt_build")
       \/ /\ Raise("get_data_realtime")
          /\ UNCHANGED <<input_data, next_id, building, dt_i>>
    /\ UNCHANGED <<notTrade, sub_type, strategy_name, stock_strategy_dict, strategy_map>>

\* a comprehension over the keys of the override map
build_strategy_overrides_only ==
    /\ pc = "dt_build"
    /\ dt_i <= Len(stock_list)
    /\ LET stock_code == stock_list[dt_i]
           r == init_strategy(StrategyFor(stock_code), input_data, next_id)
       IN  IF stock_code \notin DOMAIN stock_strategy_dict
           THEN /\ dt_i' = dt_i + 1
                /\ Goto("dt_build")
                /\ UNCHANGED <<calls, building, next_id>>
           ELSE IF r.ok
           THEN /\ Log([op |-> "__init__", inst |-> r.inst])
                /\ building' = dict_set(building, stock_code, r.inst)
                /\ dt_i' = dt_i + 1
                /\ next_id' = next_id + 2
                /\ Goto("dt_build")
           ELSE /\ Raise(r.err)
                /\ UNCHANGED <<calls, building, dt_i, next_id>>
    /\ UNCHANGED <<notTrade, sub_type, strategy_name, stock_strategy_dict, input_data,
                   strategy_map>>

\* lines 132-133, one element of the dict comprehension: the class is
\* looked up, then its constructor runs and may raise
build_strategy ==
    /\ pc = "dt_build"
    /\ dt_i <= Len(stock_list)
    /\ LET stock_code == stock_list[dt_i]
           r == init_strategy(StrategyFor(stock_code), input_data, next_id)
       IN  IF r.ok
           THEN /\ Log([op |-> "__init__", inst |-> r.inst])
                /\ \/ /\ building' = dict_set(building, stock_code, r.inst)
                      /\ dt_i' = dt_i + 1
                      /\ next_id' = next_id + 2
                      /\ Goto("dt_build")
                   \/ /\ Raise("__init__")
                      /\ UNCHANGED <<building, dt_i, next_id>>
           ELSE /\ Raise(r.err)
                /\ UNCHANGED <<calls, building, dt_i, next_id>>
    /\ UNCHANGED <<notTrade, sub_type, strategy_name, stock_strategy_dict, input_data,
                   strategy_map>>

\* line 132: the finished dict is bound to strategy_map
bind_strategy_map ==
    /\ pc = "dt_build"
    /\ dt_i > Len(stock_list)
    /\ strategy_map' = building
    /\ Goto("dt_loop")
    /\ UNCHANGED <<calls, notTrade, sub_type, strategy_name, stock_strategy_dict,
                   input_data, building, dt_i, next_id>>

\* a loop body that is left after one evaluation
cur_kline_evaluate_once ==
    /\ pc = "dt_loop"
    /\ CountOp("cur_kline_evaluate") < MaxEval
    /\ Log([op |-> "cur_kline_evaluate", stock_list |-> stock_list,
            strategy_map |-> strategy_map, sub_type |-> sub_type])
    /\ \/ Return
       \/ Raise("cur_kline_evaluate")
    /\ UNCHANGED <<notTrade, tradeVars>>

\* a loop that builds the strategy map again in every iteration
cur_kline_evaluate_rebuild ==
    /\ pc = "dt_loop"
    /\ CountOp("cur_kline_evaluate") < MaxEval
    /\ Log([op |-> "cur_kline_evaluate", stock_list |-> stock_list,
            strategy_map |-> strategy_map, sub_type |-> sub_type])
    /\ \/ /\ Goto("dt_build")
          /\ building' = <<>>
          /\ dt_i' = 1
       \/ /\ Raise("cur_kline_evaluate")
          /\ UNCHANGED <<building, dt_i>>
    /\ UNCHANGED <<notTrade, sub_type, strategy_name, stock_strategy_dict, input_data,
                   strategy_map, next_id>>

\* lines 134-135, one iteration of `while True`
cur_kline_evaluate ==
    /\ pc = "dt_loop"
    /\ CountOp("cur_kline_evaluate") < MaxEval
    /\ Log([op |-> "cur_kline_evaluate", stock_list |-> stock_list,
            strategy_map |-> strategy_map, sub_type |-> sub_type])
    /\ \/ Goto("dt_loop")
       \/ Raise("cur_kline_evaluate")
    /\ UNCHANGED <<notTrade, tradeVars>>

init_day_trading ==
    \/ kline_subscribe
    \/ sys_exit
    \/ get_data_realtime
    \/ build_strategy
    \/ bind_strategy_map
    \/ cur_kline_evaluate

(***************************************************************************)
(* Filter resolution and the filter-and-notify loop of main.               *)
(***************************************************************************)
RECURSIVE instantiate_filters(_, _)
\* line 107: the instances of the names in order, or the first error
instantiate_filters(names, id) ==
    IF names = <<>> THEN [ok |-> TRUE, insts |-> <<>>]
    ELSE LET r == dynamic_instantiation("filters", Head(names), None, id)
         IN  IF ~r.ok THEN r
             ELSE LET rest == instantiate_filters(Tail(names), id + 1)
                  IN  IF ~rest.ok THEN rest
                      ELSE [ok |-> TRUE, insts |-> <<r.inst>> \o rest.insts]

\* lines 95-107.  With "all" in the list the comprehension of lines 104-105
\* tests `"__init__" not in file_name` on the Path objects rglob yields,
\* which raises TypeError for the first file.
init_filter(filter_list, id) ==
    IF <<"all">> \in Range(filter_list)
    THEN IF FilterFiles # {}
         THEN [ok |-> FALSE, err |-> "TypeError"]
         ELSE instantiate_filters(<<>>, id)
    ELSE instantiate_filters(filter_list, id)

\* StockFilter(...).get_filtered_equity_pools(): the instruments of the
\* list, in order, that pass every filter
get_filtered_equity_pools(stock_filters, equity_list) ==
    SelectSeq(equity_list,
              LAMBDA c : \A k \in 1..Len(stock_filters) :
                             c \in filter_pass[stock_filters[k].class])

\* lines 140-143
init_stock_filter(filter_list, equity_list, id) ==
    LET r == init_filter(filter_list, id)
    IN  IF ~r.ok THEN r
        ELSE [ok |-> TRUE, list |-> get_filtered_equity_pools(r.insts, equity_list)]

\* futu_trade.get_stock_basicinfo(market, SecurityType.STOCK)['code'].tolist()
Universe(market_code) ==
    IF market_code = "Market.HK" THEN <<"HK.00001", "HK.00002">>
    ELSE IF market_code = "Market.US" THEN <<"US.AAPL", "US.MSFT">>
    ELSE IF market_code = "Market.SH" THEN <<"SH.600000">>
    ELSE <<"SZ.000001">>

basicinfo_call(market_code) ==
    [op |-> "get_stock_basicinfo", market |-> market_code,
     stock_type |-> "SecurityType.STOCK"]

\* the detail records an enrichment collaborator builds for a list
get_stocks_email(source, stock_codes) == [source |-> source, stocks |-> stock_codes]

\* line 193: 'HK' in args.market or 'US' in args.market
EquityBlockApplies(market) ==
    "HK" \in Range(args.market) \/ "US" \in Range(args.market)

\* line 202: 'CHINA' in args.market
ChinaBlockApplies(market) == "CHINA" \in Range(args.market)

\* lines 188-190: the loop over the requested markets is entered;
\* args.market is None when -m is not given
main_filter ==
    /\ pc = "main_filter"
    /\ IF args.filter = NotGiven
       THEN /\ Goto("main_hsi")
            /\ UNCHANGED m_i
       ELSE IF args.market = NotGiven
       THEN /\ Raise("TypeError")
            /\ UNCHANGED m_i
       ELSE /\ m_i' = 1
            /\ Goto("mf_market")
    /\ UNCHANGED <<calls, stock_list, syncVars, tradeVars, args, subscription_list,
                   filter_pass, filtered_stock_list, filtered_stock_dict, s_i>>

\* line 190: the markets are exhausted
main_filter_end ==
    /\ pc = "mf_market"
    /\ m_i > Len(args.market)
    /\ Goto("main_hsi")
    /\ UNCHANGED <<calls, stock_list, syncVars, tradeVars, filterVars>>

\* lines 191-200
equity_filter ==
    /\ pc = "mf_market"
    /\ m_i <= Len(args.market)
    /\ LET market == args.market[m_i]
           market_code == IF market = "HK" THEN "Market.HK" ELSE "Market.US"
           r == init_stock_filter(args.filter, Universe(market_code), next_id)
       IN  IF EquityBlockApplies(market)
           THEN \/ /\ r.ok
                   /\ calls' = calls \o
                        <<basicinfo_call(market_code),
                          [op |-> "YahooFinanceInterface.get_stocks_email",
                           stocks |-> r.list]>>
                   /\ filtered_stock_list' = r.list
                   /\ filtered_stock_dict' = get_stocks_email("YahooFinanceInterface", r.list)
                   /\ next_id' = next_id + Len(args.filter)
                   /\ Goto("mf_china")
                \/ /\ ~r.ok
                   /\ Log(basicinfo_call(market_code))
                   /\ Raise(r.err)
                   /\ UNCHANGED <<filtered_stock_list, filtered_stock_dict, next_id>>
                \/ /\ Log(basicinfo_call(market_code))
                   /\ Raise("get_stock_basicinfo")
                   /\ UNCHANGED <<filtered_stock_list, filtered_stock_dict, next_id>>
           ELSE /\ filtered_stock_list' = <<>>
                /\ filtered_stock_dict' = NoDetails
                /\ Goto("mf_china")
                /\ UNCHANGED <<calls, next_id>>
    /\ UNCHANGED <<stock_list, syncVars, sub_type, strategy_name, stock_strategy_dict,
                   input_data, building, strategy_map, dt_i, args, subscription_list,
                   filter_pass, m_i, s_i>>

\* lines 202-209
china_filter ==
    /\ pc = "mf_china"
    /\ LET china_equity_list == Universe("Market.SH") \o Universe("Market.SZ")
           r == init_stock_filter(args.filter, china_equity_list, next_id)
       IN  IF ChinaBlockApplies(args.market[m_i])
           THEN \/ /\ r.ok
                   /\ calls' = calls \o
                        <<basicinfo_call("Market.SH"), basicinfo_call("Market.SZ"),
                          [op |-> "TuShareInterface.update_stocks_history",
                           stocks |-> china_equity_list],
                          [op |-> "TuShareInterface.get_stocks_email",
                           stocks |-> r.list]>>
                   /\ filtered_stock_list' = r.list
                   /\ filtered_stock_dict' = get_stocks_email("TuShareInterface", r.list)
                   /\ next_id' = next_id + Len(args.filter)
                   /\ Goto("mf_notify")
                \/ /\ ~r.ok
                   /\ calls' = calls \o
                        <<basicinfo_call("Market.SH"), basicinfo_call("Market.SZ"),
                          [op |-> "TuShareInterface.update_stocks_history",
                           stocks |-> china_equity_list]>>
                   /\ Raise(r.err)
                   /\ UNCHANGED <<filtered_stock_list, filtered_stock_dict, next_id>>
                \/ /\ calls' = calls \o
                        <<basicinfo_call("Market.SH"), basicinfo_call("Market.SZ"),
                          [op |-> "TuShareInterface.update_stocks_history",
                           stocks |-> china_equity_list]>>
                   /\ Raise("TuShareInterface.update_stocks_history")
                   /\ UNCHANGED <<filtered_stock_list, filtered_stock_dict, next_id>>
           ELSE /\ Goto("mf_notify")
                /\ UNCHANGED <<calls, filtered_stock_list, filtered_stock_dict, next_id>>
    /\ s_i' = 1
    /\ UNCHANGED <<stock_list, syncVars, sub_type, strategy_name, stock_strategy_dict,
                   input_data, building, strategy_map, dt_i, args, subscription_list,
                   filter_pass, m_i>>

\* lines 212-213: no e-mail when nothing was selected
skip_empty ==
    /\ pc = "mf_notify"
    /\ Len(filtered_stock_list) = 0
    /\ m_i' = m_i + 1
    /\ Goto("mf_market")
    /\ UNCHANGED <<calls, stock_list, syncVars, tradeVars, args, subscription_list,
                   filter_pass, filtered_stock_list, filtered_stock_dict, s_i>>

\* lines 214-216, one subscriber; `market` is the loop variable of line
\* 190 at the time of the call
write_daily_stock_filter_email ==
    /\ pc = "mf_notify"
    /\ Len(filtered_stock_list) # 0
    /\ s_i <= Len(subscription_list)
    /\ Log([op |-> "write_daily_stock_filter_email",
            subscriber |-> subscription_list[s_i],
            filter_name |-> IF args.email_name # None THEN args.email_name
                            ELSE "Default Stock Filter",
            filtered_stock_dict |-> filtered_stock_dict,
            market |-> args.market[m_i],
            iteration |-> m_i])
    /\ \/ /\ s_i' = s_i + 1
          /\ Goto("mf_notify")
       \/ /\ Raise("write_daily_stock_filter_email")
          /\ UNCHANGED s_i
    /\ UNCHANGED <<stock_list, syncVars, tradeVars, args, subscription_list,
                   filter_pass, m_i, filtered_stock_list, filtered_stock_dict>>

\* line 214: the subscribers are exhausted, on to the next market
next_market ==
    /\ pc = "mf_notify"
    /\ Len(filtered_stock_list) # 0
    /\ s_i > Len(subscription_list)
    /\ m_i' = m_i + 1
    /\ Goto("mf_market")
    /\ UNCHANGED <<calls, stock_list, syncVars, tradeVars, args, subscription_list,
                   filter_pass, filtered_stock_list, filtered_stock_dict, s_i>>

filter_and_notify ==
    \/ main_filter
    \/ main_filter_end
    \/ equity_filter
    \/ china_filter
    \/ skip_empty
    \/ write_daily_stock_filter_email
    \/ next_market

(***************************************************************************)
(* The rest of main, lines 219-245.                                        *)
(***************************************************************************)
\* YahooFinanceInterface.get_top_30_hsi_constituents()
top_30_hsi_constituents == <<"HK.00001", "HK.00002">>

\* the names of the directories PATH_DATA.iterdir() yields
data_directories == <<"HK.00003", "Stock_Pool">>

\* list.extend of the elements of more that are not in the list
extend_missing(l, more) == l \o SelectSeq(more, LAMBDA c : c \notin Range(l))

\* list.remove(x): the first occurrence goes, if there is one
remove_first(l, x) ==
    IF x \notin Range(l) THEN l
    ELSE LET k == CHOOSE j \in 1..Len(l) : l[j] = x /\ \A i \in 1..(j - 1) : l[i] # x
         IN  SubSeq(l, 1, k - 1) \o SubSeq(l, k + 1, Len(l))

\* lines 219-221
include_hsi ==
    /\ pc = "main_hsi"
    /\ IF args.include_hsi \/ stock_list = <<>>
       THEN /\ Log([op |-> "get_top_30_hsi_constituents"])
            /\ stock_list' = extend_missing(stock_list, top_30_hsi_constituents)
       ELSE UNCHANGED <<calls, stock_list>>
    /\ Goto("main_update")
    /\ UNCHANGED <<syncVars, tradeVars, filterVars>>

\* lines 223-229: the call of daily_update_data
update_data ==
    /\ pc = "main_update"
    /\ IF args.update \/ args.force_update
       THEN /\ stock_list' =
                 remove_first(extend_missing(stock_list, data_directories), "Stock_Pool")
            /\ force_update' = args.force_update
            /\ pc' = "du_security_list"
            /\ stack' = <<"main_strategy">> \o stack
            /\ UNCHANGED <<exc, exit_code>>
       ELSE /\ Goto("main_strategy")
            /\ UNCHANGED <<stock_list, force_update>>
    /\ UNCHANGED <<calls, security_list, staleness, full_equity_list, days,
                   default_days, du_i, bars, tradeVars, filterVars>>

\* a main that starts the live loop whatever the trading-time check says
strategy_run_ungated ==
    /\ pc = "main_strategy"
    /\ IF args.strategy # NotGiven
       THEN \E r \in {"True", "False"} :
               /\ Log([op |-> "is_normal_trading_time", stock_list |-> stock_list,
                       ret |-> r])
               /\ strategy_name' = args.strategy
               /\ sub_type' = args.time_interval
               /\ pc' = "dt_subscribe"
               /\ stack' = <<"main_backtesting">> \o stack
               /\ UNCHANGED <<exc, exit_code>>
       ELSE /\ Goto("main_backtesting")
            /\ UNCHANGED <<calls, strategy_name, sub_type>>
    /\ UNCHANGED <<stock_list, syncVars, stock_strategy_dict, input_data, building,
                   strategy_map, dt_i, next_id, filterVars>>

\* lines 231-240: the call of init_day_trading
strategy_run ==
    /\ pc = "main_strategy"
    /\ IF args.strategy # NotGiven
       THEN \/ /\ Log([op |-> "is_normal_trading_time", stock_list |-> stock_list,
                       ret |-> "True"])
               /\ strategy_name' = args.strategy
               /\ sub_type' = args.time_interval
               /\ pc' = "dt_subscribe"
               /\ stack' = <<"main_backtesting">> \o stack
               /\ UNCHANGED <<exc, exit_code>>
            \/ /\ Log([op |-> "is_normal_trading_time", stock_list |-> stock_list,
                       ret |-> "False"])
               /\ Goto("main_backtesting")
               /\ UNCHANGED <<strategy_name, sub_type>>
            \/ /\ Log([op |-> "is_normal_trading_time", stock_list |-> stock_list,
                       ret |-> "raised"])
               /\ Raise("is_normal_trading_time")
               /\ UNCHANGED <<strategy_name, sub_type>>
       ELSE /\ Goto("main_backtesting")
            /\ UNCHANGED <<calls, strategy_name, sub_type>>
    /\ UNCHANGED <<stock_list, syncVars, stock_strategy_dict, input_data, building,
                   strategy_map, dt_i, next_id, filterVars>>

\* lines 242-243 with init_backtesting, lines 110-121
backtesting ==
    /\ pc = "main_backtesting"
    /\ LET r == dynamic_instantiation("strategies", args.backtesting,
                                      "get_backtesting_init_data", next_id)
       IN  IF args.backtesting = NotGiven
           THEN /\ Goto("main_quota")
                /\ UNCHANGED <<calls, next_id>>
           ELSE IF r.ok
           THEN /\ calls' = calls \o
                     <<[op |-> "BacktestingEngine"],
                       [op |-> "prepare_input_data_file_custom_M"],
                       [op |-> "get_backtesting_init_data"],
                       [op |-> "__init__", inst |-> r.inst],
                       [op |-> "BacktestingEngine.init_strategy", inst |-> r.inst],
                       [op |-> "calculate_return"]>>
                /\ next_id' = next_id + 1
                /\ \/ Goto("main_quota")
                   \/ Raise("init_backtesting")
           ELSE /\ calls' = calls \o
                     <<[op |-> "BacktestingEngine"],
                       [op |-> "prepare_input_data_file_custom_M"],
                       [op |-> "get_backtesting_init_data"]>>
                /\ Raise(r.err)
                /\ UNCHANGED next_id
    /\ UNCHANGED <<stock_list, syncVars, sub_type, strategy_name, stock_strategy_dict,
                   input_data, building, strategy_map, dt_i, filterVars>>

\* line 245, after which main returns and the process ends with status 0
display_quota ==
    /\ pc = "main_quota"
    /\ Log([op |-> "display_quota"])
    /\ \/ /\ pc' = "done"
          /\ exit_code' = 0
          /\ UNCHANGED <<stack, exc>>
       \/ Raise("display_quota")
    /\ UNCHANGED <<stock_list, syncVars, tradeVars, filterVars>>

main ==
    \/ include_hsi
    \/ update_data
    \/ strategy_run
    \/ backtesting
    \/ display_quota

\* main's locals before main is entered
FilterIdle ==
    /\ args = NoArgs
    /\ subscription_list = <<>>
    /\ filter_pass = [c \in {} |-> {}]
    /\ m_i = 1
    /\ filtered_stock_list = <<>>
    /\ filtered_stock_dict = NoDetails
    /\ s_i = 1

\* the locals of init_day_trading before it is entered
TradeIdle ==
    /\ sub_type = None
    /\ strategy_name = <<>>
    /\ stock_strategy_dict = <<>>
    /\ input_data = NoDict
    /\ building = <<>>
    /\ strategy_map = <<>>
    /\ dt_i = 1
    /\ next_id = 1

(***************************************************************************)
(* daily_update_data called on its own with any list of up to MaxLen       *)
(* instruments.                                                            *)
(***************************************************************************)
InitSync ==
    /\ pc = "du_security_list"
    /\ stack = <<>>
    /\ exc = None
    /\ exit_code = -1
    /\ calls = <<>>
    /\ stock_list \in SeqsUpTo(Instruments, MaxLen)
    /\ force_update \in BOOLEAN
    /\ security_list = 0
    /\ staleness \in [Instruments -> DaysValues]
    /\ full_equity_list = -1
    /\ days = <<>>
    /\ default_days = -1
    /\ du_i = 1
    /\ bars = StoreOf(staleness)
    /\ TradeIdle
    /\ FilterIdle

SpecSync == InitSync /\ [][daily_update_data]_vars

(***************************************************************************)
(* daily_update_data called up to MaxRuns times in immediate succession    *)
(* with the same list and the same flag, each call starting when the       *)
(* previous one returned.                                                  *)
(***************************************************************************)
MaxRuns == 2

\* staleness of the store before the first call
TwiceDays == {1, 400}

\* the number of calls of daily_update_data started so far
Runs == CountOp("update_security_list_full")

\* the next call: fresh locals, the lookups of line 61 read the store as
\* the previous call left it
daily_update_data_again ==
    /\ pc = "returned"
    /\ Runs < MaxRuns
    /\ pc' = "du_security_list"
    /\ staleness' = num_days_to_update(bars)
    /\ full_equity_list' = -1
    /\ days' = <<>>
    /\ default_days' = -1
    /\ du_i' = 1
    /\ UNCHANGED <<stack, exc, exit_code, calls, notSync, force_update,
                   security_list, bars>>

InitSyncTwice ==
    /\ InitSync
    /\ staleness \in [Instruments -> TwiceDays]

SpecSyncTwice ==
    InitSyncTwice /\ [][daily_update_data \/ daily_update_data_again]_vars

(***************************************************************************)
(* init_day_trading called on its own with any list of up to MaxLen of two *)
(* instruments, any default strategy and any override map.                 *)
(***************************************************************************)
TradeInstruments == {"HK.00001", "HK.00002"}

\* the dicts with keys in K and values in V
Dicts(K, V) == UNION {[D -> V] : D \in SUBSET K}

SyncIdle ==
    /\ force_update = FALSE
    /\ security_list = 0
    /\ staleness = [c \in Instruments |-> 0]
    /\ full_equity_list = -1
    /\ days = <<>>
    /\ default_days = -1
    /\ du_i = 1
    /\ bars = StoreOf(staleness)

InitTrade ==
    /\ pc = "dt_subscribe"
    /\ stack = <<>>
    /\ exc = None
    /\ exit_code = -1
    /\ calls = <<>>
    /\ stock_list \in SeqsUpTo(TradeInstruments, MaxLen)
    /\ SyncIdle
    /\ sub_type \in {"K_1M", "K_DAY"}
    /\ strategy_name \in StrategyNames
    /\ stock_strategy_dict \in Dicts(TradeInstruments, StrategyNames)
    /\ input_data = NoDict
    /\ building = <<>>
    /\ strategy_map = <<>>
    /\ dt_i = 1
    /\ next_id = 1
    /\ FilterIdle

SpecTrade == InitTrade /\ [][init_day_trading]_vars

(***************************************************************************)
(* The filter-and-notify part of main (lines 188-216) run with any filter  *)
(* names argparse accepts, up to MaxMarkets markets and up to              *)
(* MaxSubscribers subscribers.                                             *)
(***************************************************************************)
Markets == {"HK", "CHINA", "US"}

Subscribers == <<"a@example.com", "b@example.com", "c@example.com", "d@example.com">>

AllCodes ==
    Range(Universe("Market.HK")) \cup Range(Universe("Market.US"))
        \cup Range(Universe("Market.SH")) \cup Range(Universe("Market.SZ"))

\* the sets of instruments a filter may let pass
PassChoices ==
    {AllCodes, {}, {"HK.00001", "US.AAPL", "SH.600000"}, {"HK.00002", "SZ.000001"}}

\* the -f requests followed, each made of names argparse accepts
FilterRequests ==
    {f \in {<<MA_Simple>>, <<MA_Simple, Volume_Threshold>>,
             <<Volume_Threshold, Triple_Cross>>} :
        Range(f) \subseteq Choices(FilterFiles, "Filters")}

FilterClasses == {replace_underscore(m) : m \in {MA_Simple, Volume_Threshold}}

InitFilter ==
    /\ pc = "main_filter"
    /\ stack = <<>>
    /\ exc = None
    /\ exit_code = -1
    /\ calls = <<>>
    /\ stock_list = <<>>
    /\ SyncIdle
    /\ TradeIdle
    /\ \E f \in FilterRequests,
          m \in {NotGiven} \cup SeqsUpTo(Markets, MaxMarkets),
          e \in {None, "Weekly Pick"} :
          args = [NoArgs EXCEPT !.filter = f, !.market = m, !.email_name = e]
    /\ \E n \in 0..MaxSubscribers : subscription_list = SubSeq(Subscribers, 1, n)
    /\ filter_pass \in [FilterClasses -> PassChoices]
    /\ m_i = 1
    /\ filtered_stock_list = <<>>
    /\ filtered_stock_dict = NoDetails
    /\ s_i = 1

SpecFilter == InitFilter /\ [][filter_and_notify]_vars

(***************************************************************************)
(* __dynamic_instantiation and __init_filter called on their own, up to    *)
(* MaxCalls times, by a caller that catches what they raise: exc holds the *)
(* exception of the last call, and every call is logged with its arguments *)
(* and its outcome.                                                        *)
(***************************************************************************)
MaxCalls == 2

Prefixes == {"strategies", "filters"}

\* the names asked for: those of both packages and a name in neither
PluginNames == StrategyNames \cup {MA_Simple, Volume_Threshold, Triple_Cross}

\* the lists handed to __init_filter
BulkRequests ==
    {<<MA_Simple>>, <<MA_Simple, Volume_Threshold>>, <<Volume_Threshold, Triple_Cross>>,
     <<No_Such, MA_Simple>>, <<MA_Simple, No_Such, Volume_Threshold>>,
     << <<"all">> >>}

\* no instance
NoInstance == [id |-> 0, prefix |-> None, module |-> <<>>, class |-> <<>>, arg |-> None]

\* lines 75-82, one call; the constructor of line 79 or 81 may raise
dynamic_instantiation_call ==
    /\ pc = "pl_idle"
    /\ Len(calls) < MaxCalls
    /\ \E prefix \in Prefixes, module_name \in PluginNames,
          optional_parameter \in {None, "input_data"} :
          LET r == dynamic_instantiation(prefix, module_name, optional_parameter,
                                         next_id)
              c == [op |-> "__dynamic_instantiation", prefix |-> prefix,
                    module_name |-> module_name,
                    optional_parameter |-> optional_parameter]
          IN  IF r.ok
              THEN \/ /\ Log(c @@ [ok |-> TRUE, inst |-> r.inst, err |-> None])
                      /\ exc' = None
                      /\ next_id' = next_id + 1
                   \/ /\ Log(c @@ [ok |-> FALSE, inst |-> NoInstance,
                                   err |-> "__init__"])
                      /\ exc' = "__init__"
                      /\ UNCHANGED next_id
              ELSE /\ Log(c @@ [ok |-> FALSE, inst |-> NoInstance, err |-> r.err])
                   /\ exc' = r.err
                   /\ UNCHANGED next_id
    /\ UNCHANGED <<pc, stack, exit_code, stock_list, syncVars, sub_type,
                   strategy_name, stock_strategy_dict, input_data, building,
                   strategy_map, dt_i, filterVars>>

\* lines 95-107, one call
init_filter_call ==
    /\ pc = "pl_idle"
    /\ Len(calls) < MaxCalls
    /\ \E filter_list \in BulkRequests :
          LET r == init_filter(filter_list, next_id)
              c == [op |-> "__init_filter", filter_list |-> filter_list]
          IN  IF r.ok
              THEN /\ Log(c @@ [ok |-> TRUE, insts |-> r.insts, err |-> None])
                   /\ exc' = None
                   /\ next_id' = next_id + Len(r.insts)
              ELSE /\ Log(c @@ [ok |-> FALSE, insts |-> <<>>, err |-> r.err])
                   /\ exc' = r.err
                   /\ UNCHANGED next_id
    /\ UNCHANGED <<pc, stack, exit_code, stock_list, syncVars, sub_type,
                   strategy_name, stock_strategy_dict, input_data, building,
                   strategy_map, dt_i, filterVars>>

InitPlugins ==
    /\ pc = "pl_idle"
    /\ stack = <<>>
    /\ exc = None
    /\ exit_code = -1
    /\ calls = <<>>
    /\ stock_list = <<>>
    /\ SyncIdle
    /\ TradeIdle
    /\ FilterIdle

SpecPlugins == InitPlugins /\ [][dynamic_instantiation_call \/ init_filter_call]_vars

(***************************************************************************)
(* The whole program: main with a choice of command lines and              *)
(* configurations.                                                         *)
(***************************************************************************)
CommandLines ==
    {[NoArgs EXCEPT !.filter = fm[1], !.market = fm[2], !.update = u,
                    !.force_update = fu, !.strategy = st, !.backtesting = b,
                    !.include_hsi = h] :
        fm \in {<<NotGiven, NotGiven>>, <<<<MA_Simple>>, <<"HK">>>>,
                <<<<MA_Simple>>, <<"HK", "CHINA">>>>},
        u \in BOOLEAN, fu \in BOOLEAN,
        st \in {NotGiven} \cup Choices(StrategyFiles, "Strategies"),
        b \in {NotGiven, KDJ_Cross},
        h \in BOOLEAN}

Init ==
    /\ pc = "main_filter"
    /\ stack = <<>>
    /\ exc = None
    /\ exit_code = -1
    /\ calls = <<>>
    /\ stock_list \in {<<>>, <<"HK.00002">>}
    /\ force_update = FALSE
    /\ security_list = 0
    /\ staleness = [c \in Instruments |->
                       IF c = "HK.00001" THEN 1 ELSE IF c = "HK.00002" THEN 40 ELSE 400]
    /\ full_equity_list = -1
    /\ days = <<>>
    /\ default_days = -1
    /\ du_i = 1
    /\ bars = StoreOf(staleness)
    /\ sub_type = None
    /\ strategy_name = <<>>
    /\ stock_strategy_dict \in {<<>>, [c \in {"HK.00001"} |-> KDJ_Cross]}
    /\ input_data = NoDict
    /\ building = <<>>
    /\ strategy_map = <<>>
    /\ dt_i = 1
    /\ next_id = 1
    /\ args \in CommandLines
    /\ subscription_list = SubSeq(Subscribers, 1, 1)
    /\ filter_pass \in {[c \in FilterClasses |-> AllCodes], [c \in FilterClasses |-> {}]}
    /\ m_i = 1
    /\ filtered_stock_list = <<>>
    /\ filtered_stock_dict = NoDetails
    /\ s_i = 1

Next ==
    \/ filter_and_notify
    \/ main
    \/ daily_update_data
    \/ init_day_trading

Spec == Init /\ [][Next]_vars

(***************************************************************************)
(* Reading the call log.                                                   *)
(***************************************************************************)
ReferenceOps ==
    <<"update_security_list_full", "update_plate_list", "update_stock_basicinfo",
      "get_equity_list_full", "update_owner_plate">>

BarOps == {"update_DW_data", "update_1M_data"}

\* operation, instrument and bar type of a logged call
Key(c) ==
    IF c.op = "update_DW_data" THEN <<c.op, c.code, c.k_type>>
    ELSE IF c.op \in {"update_1M_data", "get_num_days_to_update"}
         THEN <<c.op, c.code, None>>
         ELSE <<c.op, None, None>>

\* the calls of a complete run of daily_update_data on the list sl
ExpectedKey(sl, k) ==
    LET n == Len(sl)
        j == k - 5 - n - 1
    IN  IF k <= 5 THEN <<ReferenceOps[k], None, None>>
        ELSE IF k <= 5 + n THEN <<"get_num_days_to_update", sl[k - 5], None>>
        ELSE IF j % 3 = 0 THEN <<"update_DW_data", sl[(j \div 3) + 1], "K_DAY">>
        ELSE IF j % 3 = 1 THEN <<"update_DW_data", sl[(j \div 3) + 1], "K_WEEK">>
        ELSE <<"update_1M_data", sl[(j \div 3) + 1], None>>

HasBarCall == \E k \in 1..Len(calls) : calls[k].op \in BarOps

\* C1: in every run of daily_update_data the calls made so far are the
\* first calls of the fixed sequence security list, plate list, basic info,
\* full equity list read, owner plate (with the list as stored after the
\* security-list refresh), one staleness lookup per instrument, then per
\* instrument daily, weekly and 1-minute bars; each reference refresh
\* happens at most once, exactly once before any bar update and exactly
\* once in a run that returns, whatever the length of the list.
C1_FixedOrder ==
    /\ Len(calls) <= 5 + 4 * Len(stock_list)
    /\ \A k \in 1..Len(calls) : Key(calls[k]) = ExpectedKey(stock_list, k)
    /\ \A k \in 1..Len(calls) :
          calls[k].op = "update_owner_plate" => calls[k].stock_list = 1
    /\ \A k \in 1..5 :
          /\ CountOp(ReferenceOps[k]) <= 1
          /\ (HasBarCall \/ pc = "returned") => CountOp(ReferenceOps[k]) = 1
    /\ pc = "returned" => Len(calls) = 5 + 4 * Len(stock_list)

\* a run over three instruments, two of them different, that returned
C1_Witness ==
    /\ pc = "returned"
    /\ Len(stock_list) = 3
    /\ Cardinality(Range(stock_list)) >= 2
    /\ CountOp("update_owner_plate") = 1
    /\ CountOp("update_1M_data") = 3

\* the largest staleness among the instruments of the list
MaxStaleness ==
    CHOOSE d \in {staleness[c] : c \in Range(stock_list)} :
        \A c \in Range(stock_list) : staleness[c] <= d

\* the least number of 365-day years that covers d days
YearsCovering(d) ==
    CHOOSE y \in 0..d : y * 365 >= d /\ (y = 0 \/ (y - 1) * 365 < d)

\* C2: for a non-empty list, every 1-minute update of the run carries the
\* maximum of the instruments' staleness as default_days and every daily
\* and weekly update carries ceil(maximum/365) as years; staleness 1, 40
\* and 400 gives 400 days and 2 years for all three instruments.
C2_GlobalDaysToUpdate ==
    \A k \in 1..Len(calls) :
        /\ calls[k].op = "update_1M_data" =>
              /\ calls[k].default_days = MaxStaleness
              /\ {staleness[c] : c \in Range(stock_list)} = {1, 40, 400} =>
                    calls[k].default_days = 400
        /\ calls[k].op = "update_DW_data" =>
              /\ calls[k].years = YearsCovering(MaxStaleness)
              /\ {staleness[c] : c \in Range(stock_list)} = {1, 40, 400} =>
                    calls[k].years = 2

\* the run over three instruments stale by 1, 40 and 400 days returned
C2_Witness ==
    /\ pc = "returned"
    /\ Len(stock_list) = 3
    /\ staleness[stock_list[1]] = 1
    /\ staleness[stock_list[2]] = 400
    /\ staleness[stock_list[3]] = 40
    /\ CountOp("update_1M_data") = 3
    /\ default_days = 400

SyncFailures == {"get_num_days_to_update", "update_DW_data", "update_1M_data"}

Updated(c) ==
    /\ \E k \in 1..Len(calls) : Key(calls[k]) = <<"update_DW_data", c, "K_DAY">>
    /\ \E k \in 1..Len(calls) : Key(calls[k]) = <<"update_DW_data", c, "K_WEEK">>
    /\ \E k \in 1..Len(calls) : Key(calls[k]) = <<"update_1M_data", c, None>>

\* C3: when a staleness lookup or a bar update raises for one instrument,
\* every other instrument of the list still receives its daily, weekly and
\* 1-minute update in that run.
C3_PartialFailureIsolated ==
    (pc = "raised" /\ exc \in SyncFailures) =>
        \A c \in Range(stock_list) \ {calls[Len(calls)].code} : Updated(c)

(***************************************************************************)
(* Claims about init_day_trading.                                          *)
(***************************************************************************)
Indices(o) == {k \in 1..Len(calls) : calls[k].op = o}

SubscriptionFailed ==
    \E k \in Indices("kline_subscribe") : calls[k].ret = "False"

\* C4: when kline_subscribe returns failure, init_day_trading goes to
\* sys.exit(1) and nowhere else, the process ends with exit code 1, and the
\* historical window is never fetched, no strategy is constructed and
\* cur_kline_evaluate is never called.
C4_SubscriptionFailureExits ==
    SubscriptionFailed =>
        /\ CountOp("get_data_realtime") = 0
        /\ CountOp("__init__") = 0
        /\ CountOp("cur_kline_evaluate") = 0
        /\ pc \in {"dt_exit", "exited"}
        /\ pc = "dt_exit" => ENABLED sys_exit
        /\ pc = "exited" => exit_code = 1 /\ exc = "SystemExit"

\* the process has exited after a failed subscription of two instruments
C4_Witness ==
    /\ SubscriptionFailed
    /\ pc = "exited"
    /\ exit_code = 1
    /\ Len(stock_list) = 2

\* the list that was subscribed
SubscriptionSet ==
    UNION {Range(calls[k].stock_list) : k \in Indices("kline_subscribe")}

\* C5: at every call of cur_kline_evaluate, so at the first one, the key
\* set of the strategy map passed is the set of the subscribed instruments,
\* and every instance of the map was constructed before that call and none
\* after it: the map was complete before evaluation began.
C5_MapCoversSubscription ==
    \A k \in Indices("cur_kline_evaluate") :
        /\ DOMAIN calls[k].strategy_map = SubscriptionSet
        /\ DOMAIN calls[k].strategy_map = Range(calls[k].stock_list)
        /\ \A c \in DOMAIN calls[k].strategy_map :
              \E j \in Indices("__init__") :
                  j < k /\ calls[j].inst = calls[k].strategy_map[c]
        /\ \A j \in Indices("__init__") : j < k

\* the first evaluation of a list of two different instruments, one of
\* them without an override
C5_Witness ==
    /\ CountOp("cur_kline_evaluate") = 1
    /\ Cardinality(Range(stock_list)) = 2
    /\ \E c \in Range(stock_list) : c \notin DOMAIN stock_strategy_dict

\* C6: every instrument is bound to an instance of the strategy module the
\* override map names for it when it has an entry there, and of the module
\* the default strategy name names otherwise; with instruments [X, Y],
\* override {X: MACD_Cross} and default KDJ_Cross, X is bound to a
\* MACDCross instance and Y to a KDJCross instance.
C6_StrategyBinding ==
    /\ \A m \in {building, strategy_map} : \A c \in DOMAIN m :
          /\ m[c].prefix = "strategies"
          /\ c \in DOMAIN stock_strategy_dict => m[c].module = stock_strategy_dict[c]
          /\ c \notin DOMAIN stock_strategy_dict => m[c].module = strategy_name
    /\ ( /\ pc = "dt_loop"
         /\ stock_list = <<"HK.00001", "HK.00002">>
         /\ DOMAIN stock_strategy_dict = {"HK.00001"}
         /\ stock_strategy_dict["HK.00001"] = MACD_Cross
         /\ strategy_name = KDJ_Cross )
       => /\ strategy_map["HK.00001"].class = <<"MACD", "Cross">>
          /\ strategy_map["HK.00002"].class = <<"KDJ", "Cross">>

\* the map of the example is built and the loop has begun
C6_Witness ==
    /\ pc = "dt_loop"
    /\ stock_list = <<"HK.00001", "HK.00002">>
    /\ DOMAIN stock_strategy_dict = {"HK.00001"}
    /\ stock_strategy_dict["HK.00001"] = MACD_Cross
    /\ strategy_name = KDJ_Cross
    /\ DOMAIN strategy_map = {"HK.00001", "HK.00002"}
    /\ CountOp("cur_kline_evaluate") >= 1

\* C7 as stated: each strategy instance is constructed exactly once, its
\* only constructor input is the seeded data of the instrument it is bound
\* to and not that of other instruments, and none is constructed after the
\* evaluation loop has started.
C7_OwnWindowOnly ==
    /\ \A k \in Indices("cur_kline_evaluate") : \A j \in Indices("__init__") : j < k
    /\ pc = "dt_loop" =>
          \A c \in DOMAIN strategy_map :
              /\ Cardinality({j \in Indices("__init__") :
                                  calls[j].inst.id = strategy_map[c].id}) = 1
              /\ strategy_map[c].arg.items = RealtimeData(<<c>>, sub_type)

\* C7 as amended: each strategy instance is constructed exactly once, one
\* per entry of the instrument list; its only constructor input is a fresh
\* shallow copy of the one input_data that get_data_realtime returned for
\* the whole list, the same contents for every instance; none is
\* constructed after the evaluation loop has started.
C7_SharedInputCopy ==
    /\ \A k \in Indices("cur_kline_evaluate") : \A j \in Indices("__init__") : j < k
    /\ \A j \in Indices("__init__") :
          /\ calls[j].inst.arg.items = RealtimeData(stock_list, sub_type)
          /\ calls[j].inst.arg.items = input_data.items
          /\ calls[j].inst.arg.id # input_data.id
          /\ \A i \in Indices("__init__") :
                i # j => /\ calls[i].inst.id # calls[j].inst.id
                         /\ calls[i].inst.arg.id # calls[j].inst.arg.id
    /\ pc = "dt_loop" =>
          /\ CountOp("__init__") = Len(stock_list)
          /\ \A c \in DOMAIN strategy_map :
                Cardinality({j \in Indices("__init__") :
                                 calls[j].inst.id = strategy_map[c].id}) = 1

\* two different instruments are bound and the loop has begun
C7_Witness ==
    /\ pc = "dt_loop"
    /\ Cardinality(DOMAIN strategy_map) = 2
    /\ CountOp("__init__") = Len(stock_list)
    /\ CountOp("cur_kline_evaluate") >= 1

LoopEntered == pc = "dt_loop" \/ CountOp("cur_kline_evaluate") > 0

LastCallIsEvaluate ==
    Len(calls) > 0 /\ calls[Len(calls)].op = "cur_kline_evaluate"

\* C8: once the loop is entered, init_day_trading never returns and never
\* exits: it is either about to call cur_kline_evaluate or has been ended by
\* an error of the last evaluation call; from the loop the only step is
\* one more evaluation call (always possible within the MaxEval iterations
\* followed), and after an error no further call of any kind is made.
C8_LoopNeverReturns ==
    /\ [](LoopEntered =>
            /\ pc \in {"dt_loop", "raised"}
            /\ pc = "raised" => exc = "cur_kline_evaluate" /\ LastCallIsEvaluate
            /\ (pc = "dt_loop" /\ CountOp("cur_kline_evaluate") < MaxEval)
                  => ENABLED cur_kline_evaluate)
    /\ [][(pc = "dt_loop" =>
              /\ pc' \in {"dt_loop", "raised"}
              /\ Len(calls') = Len(calls) + 1
              /\ calls'[Len(calls')].op = "cur_kline_evaluate")
          /\ (pc = "raised" => calls' = calls)]_vars

\* the loop has been through every iteration that is followed
C8_Witness ==
    /\ pc = "dt_loop"
    /\ CountOp("cur_kline_evaluate") = MaxEval
    /\ Len(stock_list) >= 1

\* C9: every call of cur_kline_evaluate is passed the same instrument
\* list, the same strategy map (same keys, same instance per key) and the
\* same granularity, namely those of the parameters and of the map built at
\* loop start; init_day_trading subscribes once, before the first
\* evaluation, and constructs and binds nothing after it.
C9_FixedAtLoopStart ==
    \A k \in Indices("cur_kline_evaluate") :
        /\ calls[k].stock_list = stock_list
        /\ calls[k].sub_type = sub_type
        /\ calls[k].strategy_map = strategy_map
        /\ calls[k].strategy_map = building
        /\ \A j \in Indices("cur_kline_evaluate") : calls[j] = calls[k]
        /\ CountOp("kline_subscribe") = 1
        /\ \A j \in Indices("kline_subscribe") \cup Indices("__init__") : j < k

\* several iterations over a map of two instances
C9_Witness ==
    /\ CountOp("cur_kline_evaluate") >= 2
    /\ Cardinality(DOMAIN strategy_map) = 2

(***************************************************************************)
(* Claims about the filter-and-notify loop.                                *)
(***************************************************************************)
\* the universe of a requested market
MarketUniverse(market) ==
    IF market = "HK" THEN Universe("Market.HK")
    ELSE IF market = "US" THEN Universe("Market.US")
    ELSE Universe("Market.SH") \o Universe("Market.SZ")

\* the instruments of a market that pass every requested filter
PassesAll(c) ==
    \A k \in 1..Len(args.filter) : c \in filter_pass[replace_underscore(args.filter[k])]

OwnResult(market) == SelectSeq(MarketUniverse(market), PassesAll)

\* C10: every notification sent in the iteration of a requested market
\* carries the filtered result of that market's own universe, also when
\* several markets are requested.
C10_OwnMarketUniverse ==
    \A k \in Indices("write_daily_stock_filter_email") :
        calls[k].filtered_stock_dict.stocks = OwnResult(calls[k].market)

\* the notifications sent in the k-th iteration of the market loop
Notifications(k) ==
    {j \in Indices("write_daily_stock_filter_email") : calls[j].iteration = k}

\* the k-th iteration of the market loop has been completed
IterationDone(k) ==
    /\ k <= Len(args.market)
    /\ \/ pc = "main_hsi"
       \/ pc \in {"mf_market", "mf_china", "mf_notify"} /\ k < m_i

\* C11: once the iteration of a requested market is completed, no
\* notification was sent in it when the filtered set of that market is
\* empty, and exactly one per configured subscriber when it is not,
\* whatever the results of the other markets of the call.
C11_EmptyResultSuppression ==
    \A k \in 1..Len(args.market) :
        IterationDone(k) =>
            IF OwnResult(args.market[k]) = <<>>
            THEN Notifications(k) = {}
            ELSE \A s \in 1..Len(subscription_list) :
                    Cardinality({j \in Notifications(k) :
                        calls[j].subscriber = subscription_list[s]}) = 1

\* C12: when write_daily_stock_filter_email raises for one subscriber,
\* every other configured subscriber still receives the notification of
\* that market.
C12_DispatchFailureIsolated ==
    (pc = "raised" /\ exc = "write_daily_stock_filter_email") =>
        \A s \in 1..Len(subscription_list) :
            s # s_i =>
                \E j \in Notifications(m_i) :
                    calls[j].subscriber = subscription_list[s]

\* every bar update logged so far carries the flag daily_update_data was
\* called with
FlagPassedThrough ==
    \A k \in DOMAIN calls :
        calls[k].op \in BarOps => calls[k].force_update = force_update

RECURSIVE Stripped(_)
\* the name without its underscores
Stripped(name) ==
    IF name = <<>> THEN <<>>
    ELSE IF Head(name) = "_" THEN Stripped(Tail(name))
    ELSE <<Head(name)>> \o Stripped(Tail(name))

\* the package has a module of that name which defines the type named by
\* the name without its underscores
ValidName(prefix, name) ==
    /\ name \in DOMAIN Namespace(prefix)
    /\ Stripped(name) \in Namespace(prefix)[name]

\* C14: a call of __dynamic_instantiation with a valid name returns an
\* instance of the type named by the name without underscores, of the
\* module of that name in the requested package, unless the constructor
\* itself raises; with an invalid name (no such module, or no such type in
\* it) it raises ModuleNotFoundError or AttributeError and returns no
\* instance of any plugin.
C14_ResolveByName ==
    \A k \in DOMAIN calls :
        calls[k].op = "__dynamic_instantiation" =>
            LET c == calls[k]
            IN  IF ValidName(c.prefix, c.module_name)
                THEN IF c.ok
                     THEN /\ c.inst.prefix = c.prefix
                          /\ c.inst.module = c.module_name
                          /\ c.inst.class = Stripped(c.module_name)
                          /\ c.inst.class \in Namespace(c.prefix)[c.module_name]
                     ELSE c.err = "__init__"
                ELSE /\ ~c.ok
                     /\ c.inst = NoInstance
                     /\ c.err = IF c.module_name \in DOMAIN Namespace(c.prefix)
                                THEN "AttributeError" ELSE "ModuleNotFoundError"

C14_Witness ==
    /\ Len(calls) = 2
    /\ calls[1].op = "__dynamic_instantiation"
    /\ calls[1].module_name = KDJ_Cross
    /\ calls[1].prefix = "strategies"
    /\ calls[1].ok
    /\ calls[1].inst.class = <<"KDJ", "Cross">>
    /\ calls[2].op = "__dynamic_instantiation"
    /\ calls[2].module_name = KDJ_Cross
    /\ calls[2].prefix = "filters"
    /\ ~calls[2].ok
    /\ exc = "ModuleNotFoundError"

\* C15: a bulk request of __init_filter returns an instance for every name
\* of the list that resolves on its own, whether or not another name of the
\* list fails.
C15_BulkFailureIsolated ==
    \A k \in DOMAIN calls :
        (calls[k].op = "__init_filter" /\ <<"all">> \notin Range(calls[k].filter_list)) =>
            \A n \in Range(calls[k].filter_list) :
                ValidName("filters", n) =>
                    \E i \in DOMAIN calls[k].insts : calls[k].insts[i].module = n

\* C16: __init_filter(["all"]) returns exactly one instance, built without
\* payload, for every file of the filters directory except __init__ and
\* the abstract base Filters.
C16_AllSentinel ==
    \A k \in DOMAIN calls :
        (calls[k].op = "__init_filter" /\ calls[k].filter_list = << <<"all">> >>) =>
            /\ calls[k].ok
            /\ \A f \in Choices(FilterFiles, "Filters") :
                  Cardinality({i \in DOMAIN calls[k].insts :
                      /\ calls[k].insts[i].module = f
                      /\ calls[k].insts[i].arg = None}) = 1
            /\ Len(calls[k].insts) = Cardinality(Choices(FilterFiles, "Filters"))

\* the calls of the live loop and of its set-up
LiveOps == {"kline_subscribe", "get_data_realtime", "cur_kline_evaluate"}

BacktestOps ==
    {"BacktestingEngine", "prepare_input_data_file_custom_M",
     "get_backtesting_init_data", "BacktestingEngine.init_strategy",
     "calculate_return"}

\* the trading-time check has answered r
TradingTimeAnswered(r) ==
    \E j \in Indices("is_normal_trading_time") : calls[j].ret = r

\* C17: kline_subscribe, get_data_realtime and cur_kline_evaluate are called
\* only after is_normal_trading_time, asked because a strategy was
\* requested, has returned true; when it returns false nothing is
\* subscribed and main goes on to the backtest and to display_quota.
C17_GatedByTradingTime ==
    /\ \A k \in DOMAIN calls :
          calls[k].op \in LiveOps =>
              \E j \in 1..(k - 1) :
                  /\ calls[j].op = "is_normal_trading_time"
                  /\ calls[j].ret = "True"
    /\ Indices("is_normal_trading_time") # {} => args.strategy # NotGiven
    /\ TradingTimeAnswered("False") =>
          /\ \A k \in DOMAIN calls : calls[k].op \notin LiveOps
          /\ pc \in {"main_backtesting", "main_quota", "done", "raised"}
          /\ pc = "main_backtesting" => ENABLED backtesting
          /\ pc = "main_quota" => ENABLED display_quota
          /\ pc = "raised" =>
                calls[Len(calls)].op \in BacktestOps \cup {"display_quota"}

C17_Witness ==
    /\ TradingTimeAnswered("False")
    /\ pc = "done"
    /\ CountOp("calculate_return") = 1
    /\ CountOp("display_quota") = 1
    /\ CountOp("kline_subscribe") = 0

\* the mode a logged call belongs to, 0 for a call that belongs to none
Phase(c) ==
    IF c.op \in {"get_stock_basicinfo", "YahooFinanceInterface.get_stocks_email",
                 "TuShareInterface.update_stocks_history",
                 "TuShareInterface.get_stocks_email",
                 "write_daily_stock_filter_email"} THEN 1
    ELSE IF c.op \in Range(ReferenceOps) \cup BarOps \cup {"get_num_days_to_update"} THEN 2
    ELSE IF c.op \in LiveOps \cup {"is_normal_trading_time"} THEN 3
    ELSE IF c.op \in BacktestOps THEN 4
    ELSE IF c.op = "display_quota" THEN 5
    ELSE 0

\* neither the backtest nor display_quota has been reached
NoBacktestNoQuota ==
    /\ \A k \in DOMAIN calls : Phase(calls[k]) \notin {4, 5}
    /\ pc \notin {"main_backtesting", "main_quota", "done"}
    /\ exit_code # 0

\* C18: the calls of one run of main come in the order filter-and-notify,
\* data update, live strategy, backtest, display_quota; once the live loop
\* is entered, or once the subscription has failed, no call of the backtest
\* and no display_quota is ever made and main does not finish.
C18_ModeOrder ==
    /\ LET ph == SelectSeq([k \in DOMAIN calls |-> Phase(calls[k])],
                           LAMBDA n : n # 0)
       IN  \A k \in 1..(Len(ph) - 1) : ph[k] <= ph[k + 1]
    /\ LoopEntered => NoBacktestNoQuota
    /\ SubscriptionFailed => NoBacktestNoQuota /\ pc \in {"dt_exit", "exited"}

C18_Witness ==
    /\ CountOp("cur_kline_evaluate") >= 2
    /\ args.backtesting # NotGiven
    /\ CountOp("write_daily_stock_filter_email") >= 1
    /\ CountOp("update_1M_data") >= 1

\* C19: with an empty list daily_update_data never returns and never
\* updates a bar: it makes the reference refreshes, then the only step at
\* line 61 is the ValueError of max() of an empty list, which ends it; the
\* ValueError arises for no other list.
C19_EmptyListFails ==
    /\ [](stock_list = <<>> =>
            /\ pc # "returned"
            /\ \A k \in DOMAIN calls :
                  calls[k].op \notin BarOps \cup {"get_num_days_to_update"}
            /\ exc = "ValueError" =>
                  /\ pc = "raised"
                  /\ [k \in DOMAIN calls |-> calls[k].op] = ReferenceOps)
    /\ [](exc = "ValueError" => stock_list = <<>>)
    /\ [][(stock_list = <<>> /\ pc = "du_days") =>
             (pc' = "raised" /\ exc' = "ValueError")]_vars

C19_Witness ==
    /\ stock_list = <<>>
    /\ pc = "raised"
    /\ exc = "ValueError"
    /\ CountOp("update_owner_plate") = 1

====
